---- MODULE Spec2Model ----
\* Icarus / Vega chronology site: the scene catalogs, the five pieces of UI
\* state of IcarusVegaChronologySite and the memoized derived list `items`
\* (filter by arc, search and reveal threshold, then sort by revealPct).
\*
\* Strings are sequences of UTF-16 code units (integers), so that trim,
\* toLowerCase, join and includes are computed unit by unit as the engine does.
EXTENDS Integers, Sequences

VARIABLES
  catalogs,   \* the module-level arrays ICARUS_SCENES / VEGA_SCENES, by character
  character,  \* useState<Character>("icarus")
  q,          \* useState("")            search text
  arc,        \* useState<Arc | "All">   arc filter
  minReveal,  \* useState(0)             reveal threshold
  sortAsc,    \* useState(true)          sort direction
  deps,       \* dependency list stored by useMemo at the last computation
  items       \* value stored by useMemo: the rendered list

vars == <<catalogs, character, q, arc, minReveal, sortAsc, deps, items>>

Characters == {"icarus", "vega"}

----------------------------------------------------------------------------
\* Scene catalogs

\* "All", the arc selector's first option and the initial arc filter.
All == <<65, 108, 108>>

Isolation == <<73, 115, 111, 108, 97, 116, 105, 111, 110>>  \* "Isolation"
Confrontation == <<67, 111, 110, 102, 114, 111, 110, 116, 97, 116, 105, 111,
                   110>>  \* "Confrontation"
Awakening == <<65, 119, 97, 107, 101, 110, 105, 110, 103>>  \* "Awakening"
Duality == <<68, 117, 97, 108, 105, 116, 121>>  \* "Duality"
Climax == <<67, 108, 105, 109, 97, 120>>  \* "Climax"
Drift == <<68, 114, 105, 102, 116>>  \* "Drift"
Discovery == <<68, 105, 115, 99, 111, 118, 101, 114, 121>>  \* "Discovery"
Convergence == <<67, 111, 110, 118, 101, 114, 103, 101, 110, 99, 101>>  \* "Convergence"
Singularity == <<83, 105, 110, 103, 117, 108, 97, 114, 105, 116, 121>>  \* "Singularity"

Arcs ==
  { Isolation, Confrontation, Awakening, Duality, Climax,
    Drift, Discovery, Convergence, Singularity }

ICARUS_SCENES ==
  <<
    \* id "S00x": Wax & Brine (Prologue)
    [ id |-> <<83, 48, 48, 120>>,
      title |-> <<87, 97, 120, 32, 38, 32, 66, 114, 105, 110, 101, 32, 40, 80,
                  114, 111, 108, 111, 103, 117, 101, 41>>,
      arc |-> Isolation,
      revealPct |-> 10,
      statusPct |-> 95,
      \* summary "A shoreline of failed blueprints; feathers catalogued, wings unnamed. The sea keeps his first secret."
      summary |-> <<65, 32, 115, 104, 111, 114, 101, 108, 105, 110, 101, 32,
                    111, 102, 32, 102, 97, 105, 108, 101, 100, 32, 98, 108,
                    117, 101, 112, 114, 105, 110, 116, 115, 59, 32, 102, 101,
                    97, 116, 104, 101, 114, 115, 32, 99, 97, 116, 97, 108, 111,
                    103, 117, 101, 100, 44, 32, 119, 105, 110, 103, 115, 32,
                    117, 110, 110, 97, 109, 101, 100, 46, 32, 84, 104, 101, 32,
                    115, 101, 97, 32, 107, 101, 101, 112, 115, 32, 104, 105,
                    115, 32, 102, 105, 114, 115, 116, 32, 115, 101, 99, 114,
                    101, 116, 46>>,
      \* tags "workshop", "shore"
      tags |-> <<<<119, 111, 114, 107, 115, 104, 111, 112>>,
                <<115, 104, 111, 114, 101>>>> ],
    \* id "S01": A Scar Without Origin
    [ id |-> <<83, 48, 49>>,
      title |-> <<65, 32, 83, 99, 97, 114, 32, 87, 105, 116, 104, 111, 117,
                  116, 32, 79, 114, 105, 103, 105, 110>>,
      arc |-> Isolation,
      revealPct |-> 20,
      statusPct |-> 80,
      \* summary "Vega wakes with an untraceable scar; the world is quiet enough to hear dust settle."
      summary |-> <<86, 101, 103, 97, 32, 119, 97, 107, 101, 115, 32, 119, 105,
                    116, 104, 32, 97, 110, 32, 117, 110, 116, 114, 97, 99, 101,
                    97, 98, 108, 101, 32, 115, 99, 97, 114, 59, 32, 116, 104,
                    101, 32, 119, 111, 114, 108, 100, 32, 105, 115, 32, 113,
                    117, 105, 101, 116, 32, 101, 110, 111, 117, 103, 104, 32,
                    116, 111, 32, 104, 101, 97, 114, 32, 100, 117, 115, 116,
                    32, 115, 101, 116, 116, 108, 101, 46>>,
      \* tags "vega:scar", "memory"
      tags |-> <<<<118, 101, 103, 97, 58, 115, 99, 97, 114>>,
                <<109, 101, 109, 111, 114, 121>>>> ],
    \* id "S23f": First Ascent (Flashback)
    [ id |-> <<83, 50, 51, 102>>,
      title |-> <<70, 105, 114, 115, 116, 32, 65, 115, 99, 101, 110, 116, 32,
                  40, 70, 108, 97, 115, 104, 98, 97, 99, 107, 41>>,
      arc |-> Awakening,
      revealPct |-> 40,
      statusPct |-> 85,
      \* summary "Sunlight threads the wax; city roofs fall away. He learns the sky has a temperature."
      summary |-> <<83, 117, 110, 108, 105, 103, 104, 116, 32, 116, 104, 114,
                    101, 97, 100, 115, 32, 116, 104, 101, 32, 119, 97, 120, 59,
                    32, 99, 105, 116, 121, 32, 114, 111, 111, 102, 115, 32,
                    102, 97, 108, 108, 32, 97, 119, 97, 121, 46, 32, 72, 101,
                    32, 108, 101, 97, 114, 110, 115, 32, 116, 104, 101, 32,
                    115, 107, 121, 32, 104, 97, 115, 32, 97, 32, 116, 101, 109,
                    112, 101, 114, 97, 116, 117, 114, 101, 46>>,
      \* tags "flashback", "flight:alpha"
      tags |-> <<<<102, 108, 97, 115, 104, 98, 97, 99, 107>>,
                <<102, 108, 105, 103, 104, 116, 58, 97, 108, 112, 104, 97>>>>,
      date |-> <<8211>> ],
    \* id "S50": D\xf6dens Monolog
    [ id |-> <<83, 53, 48>>,
      title |-> <<68, 246, 100, 101, 110, 115, 32, 77, 111, 110, 111, 108, 111,
                  103>>,
      arc |-> Confrontation,
      revealPct |-> 60,
      statusPct |-> 90,
      \* summary "Icarus speaks to the dark, unspooling a ritual that erases the symbols he swore to protect."
      summary |-> <<73, 99, 97, 114, 117, 115, 32, 115, 112, 101, 97, 107, 115,
                    32, 116, 111, 32, 116, 104, 101, 32, 100, 97, 114, 107, 44,
                    32, 117, 110, 115, 112, 111, 111, 108, 105, 110, 103, 32,
                    97, 32, 114, 105, 116, 117, 97, 108, 32, 116, 104, 97, 116,
                    32, 101, 114, 97, 115, 101, 115, 32, 116, 104, 101, 32,
                    115, 121, 109, 98, 111, 108, 115, 32, 104, 101, 32, 115,
                    119, 111, 114, 101, 32, 116, 111, 32, 112, 114, 111, 116,
                    101, 99, 116, 46>>,
      dependencies |-> <<<<83, 48, 49>>>>,
      \* tags "icarus:brand", "void:glyph"
      tags |-> <<<<105, 99, 97, 114, 117, 115, 58, 98, 114, 97, 110, 100>>,
                <<118, 111, 105, 100, 58, 103, 108, 121, 112, 104>>>> ],
    \* id "S71x": The Fall (Flashback)
    [ id |-> <<83, 55, 49, 120>>,
      title |-> <<84, 104, 101, 32, 70, 97, 108, 108, 32, 40, 70, 108, 97, 115,
                  104, 98, 97, 99, 107, 41>>,
      arc |-> Duality,
      revealPct |-> 75,
      statusPct |-> 70,
      \* summary "Altitude is a covenant. Wax liquefies into signatures across the sea's black ledger."
      summary |-> <<65, 108, 116, 105, 116, 117, 100, 101, 32, 105, 115, 32,
                    97, 32, 99, 111, 118, 101, 110, 97, 110, 116, 46, 32, 87,
                    97, 120, 32, 108, 105, 113, 117, 101, 102, 105, 101, 115,
                    32, 105, 110, 116, 111, 32, 115, 105, 103, 110, 97, 116,
                    117, 114, 101, 115, 32, 97, 99, 114, 111, 115, 115, 32,
                    116, 104, 101, 32, 115, 101, 97, 39, 115, 32, 98, 108, 97,
                    99, 107, 32, 108, 101, 100, 103, 101, 114, 46>>,
      \* tags "death:myth", "oath"
      tags |-> <<<<100, 101, 97, 116, 104, 58, 109, 121, 116, 104>>,
                <<111, 97, 116, 104>>>> ],
    \* id "S90": The Cyan Star \u2014 Ultimatum
    [ id |-> <<83, 57, 48>>,
      title |-> <<84, 104, 101, 32, 67, 121, 97, 110, 32, 83, 116, 97, 114, 32,
                  8212, 32, 85, 108, 116, 105, 109, 97, 116, 117, 109>>,
      arc |-> Duality,
      revealPct |-> 90,
      statusPct |-> 75,
      \* summary "The link between them\u2014The Cipher\u2014shivers against fate; choice narrows to a blade."
      summary |-> <<84, 104, 101, 32, 108, 105, 110, 107, 32, 98, 101, 116,
                    119, 101, 101, 110, 32, 116, 104, 101, 109, 8212, 84, 104,
                    101, 32, 67, 105, 112, 104, 101, 114, 8212, 115, 104, 105,
                    118, 101, 114, 115, 32, 97, 103, 97, 105, 110, 115, 116,
                    32, 102, 97, 116, 101, 59, 32, 99, 104, 111, 105, 99, 101,
                    32, 110, 97, 114, 114, 111, 119, 115, 32, 116, 111, 32, 97,
                    32, 98, 108, 97, 100, 101, 46>>,
      dependencies |-> <<<<83, 48, 49>>, <<83, 53, 48>>>>,
      \* tags "cipher:hint", "duality"
      tags |-> <<<<99, 105, 112, 104, 101, 114, 58, 104, 105, 110, 116>>,
                <<100, 117, 97, 108, 105, 116, 121>>>> ],
    \* id "0717": Scene 0717 (Final Reveal)
    [ id |-> <<48, 55, 49, 55>>,
      title |-> <<83, 99, 101, 110, 101, 32, 48, 55, 49, 55, 32, 40, 70, 105,
                  110, 97, 108, 32, 82, 101, 118, 101, 97, 108, 41>>,
      arc |-> Climax,
      revealPct |-> 100,
      statusPct |-> 70,
      \* summary "The sibling bond surfaces as Icarus burns; Vega is remade in the ash-storm of memory."
      summary |-> <<84, 104, 101, 32, 115, 105, 98, 108, 105, 110, 103, 32, 98,
                    111, 110, 100, 32, 115, 117, 114, 102, 97, 99, 101, 115,
                    32, 97, 115, 32, 73, 99, 97, 114, 117, 115, 32, 98, 117,
                    114, 110, 115, 59, 32, 86, 101, 103, 97, 32, 105, 115, 32,
                    114, 101, 109, 97, 100, 101, 32, 105, 110, 32, 116, 104,
                    101, 32, 97, 115, 104, 45, 115, 116, 111, 114, 109, 32,
                    111, 102, 32, 109, 101, 109, 111, 114, 121, 46>>,
      dependencies |-> <<<<83, 48, 49>>, <<83, 53, 48>>, <<83, 57, 48>>>>,
      \* tags "cipher:reveal", "sacrifice"
      tags |-> <<<<99, 105, 112, 104, 101, 114, 58, 114, 101, 118, 101, 97, 108>>,
                <<115, 97, 99, 114, 105, 102, 105, 99, 101>>>> ]
  >>

VEGA_SCENES ==
  <<
    \* id "V-\u03b1": Cryo-Observatory (Waking)
    [ id |-> <<86, 45, 945>>,
      title |-> <<67, 114, 121, 111, 45, 79, 98, 115, 101, 114, 118, 97, 116,
                  111, 114, 121, 32, 40, 87, 97, 107, 105, 110, 103, 41>>,
      arc |-> Discovery,
      revealPct |-> 15,
      statusPct |-> 90,
      \* summary "A cyan aperture opens behind her eyelids; telemetry bleeds into language."
      summary |-> <<65, 32, 99, 121, 97, 110, 32, 97, 112, 101, 114, 116, 117,
                    114, 101, 32, 111, 112, 101, 110, 115, 32, 98, 101, 104,
                    105, 110, 100, 32, 104, 101, 114, 32, 101, 121, 101, 108,
                    105, 100, 115, 59, 32, 116, 101, 108, 101, 109, 101, 116,
                    114, 121, 32, 98, 108, 101, 101, 100, 115, 32, 105, 110,
                    116, 111, 32, 108, 97, 110, 103, 117, 97, 103, 101, 46>>,
      \* tags "vega:aperture", "telemetry"
      tags |-> <<<<118, 101, 103, 97, 58, 97, 112, 101, 114, 116, 117, 114, 101>>,
                <<116, 101, 108, 101, 109, 101, 116, 114, 121>>>> ],
    \* id "V-\u03b4": The Star That Watches
    [ id |-> <<86, 45, 948>>,
      title |-> <<84, 104, 101, 32, 83, 116, 97, 114, 32, 84, 104, 97, 116, 32,
                  87, 97, 116, 99, 104, 101, 115>>,
      arc |-> Drift,
      revealPct |-> 35,
      statusPct |-> 80,
      \* summary "A solar twin hums in her bones; streetlights flicker in sympathy."
      summary |-> <<65, 32, 115, 111, 108, 97, 114, 32, 116, 119, 105, 110, 32,
                    104, 117, 109, 115, 32, 105, 110, 32, 104, 101, 114, 32,
                    98, 111, 110, 101, 115, 59, 32, 115, 116, 114, 101, 101,
                    116, 108, 105, 103, 104, 116, 115, 32, 102, 108, 105, 99,
                    107, 101, 114, 32, 105, 110, 32, 115, 121, 109, 112, 97,
                    116, 104, 121, 46>>,
      \* tags "cyan:star", "resonance"
      tags |-> <<<<99, 121, 97, 110, 58, 115, 116, 97, 114>>,
                <<114, 101, 115, 111, 110, 97, 110, 99, 101>>>> ],
    \* id "V-\u03c0": Edge of Convergence
    [ id |-> <<86, 45, 960>>,
      title |-> <<69, 100, 103, 101, 32, 111, 102, 32, 67, 111, 110, 118, 101,
                  114, 103, 101, 110, 99, 101>>,
      arc |-> Convergence,
      revealPct |-> 60,
      statusPct |-> 65,
      \* summary "She learns the Cipher can fold distance the way grief folds time."
      summary |-> <<83, 104, 101, 32, 108, 101, 97, 114, 110, 115, 32, 116,
                    104, 101, 32, 67, 105, 112, 104, 101, 114, 32, 99, 97, 110,
                    32, 102, 111, 108, 100, 32, 100, 105, 115, 116, 97, 110,
                    99, 101, 32, 116, 104, 101, 32, 119, 97, 121, 32, 103, 114,
                    105, 101, 102, 32, 102, 111, 108, 100, 115, 32, 116, 105,
                    109, 101, 46>>,
      \* tags "cipher", "fold"
      tags |-> <<<<99, 105, 112, 104, 101, 114>>,
                <<102, 111, 108, 100>>>> ],
    \* id "V-\u03a9": Solar State (True Vega)
    [ id |-> <<86, 45, 937>>,
      title |-> <<83, 111, 108, 97, 114, 32, 83, 116, 97, 116, 101, 32, 40, 84,
                  114, 117, 101, 32, 86, 101, 103, 97, 41>>,
      arc |-> Singularity,
      revealPct |-> 95,
      statusPct |-> 55,
      \* summary "The cyan star crowns the horizon of her chest; photons choose her first."
      summary |-> <<84, 104, 101, 32, 99, 121, 97, 110, 32, 115, 116, 97, 114,
                    32, 99, 114, 111, 119, 110, 115, 32, 116, 104, 101, 32,
                    104, 111, 114, 105, 122, 111, 110, 32, 111, 102, 32, 104,
                    101, 114, 32, 99, 104, 101, 115, 116, 59, 32, 112, 104,
                    111, 116, 111, 110, 115, 32, 99, 104, 111, 111, 115, 101,
                    32, 104, 101, 114, 32, 102, 105, 114, 115, 116, 46>>,
      \* tags "solar:state", "ascension"
      tags |-> <<<<115, 111, 108, 97, 114, 58, 115, 116, 97, 116, 101>>,
                <<97, 115, 99, 101, 110, 115, 105, 111, 110>>>> ]
  >>
----------------------------------------------------------------------------
\* String primitives of the engine, on sequences of UTF-16 code units

\* WhiteSpace and LineTerminator code units, the ones String.prototype.trim strips.
WhiteSpace ==
  {9, 10, 11, 12, 13, 32, 160, 5760, 8232, 8233, 8239, 8287, 12288, 65279}
    \cup (8192..8202)

RECURSIVE TrimStart(_)
TrimStart(s) ==
  IF s = <<>> THEN <<>>
  ELSE IF Head(s) \in WhiteSpace THEN TrimStart(Tail(s))
  ELSE s

RECURSIVE TrimEnd(_)
TrimEnd(s) ==
  IF s = <<>> THEN <<>>
  ELSE IF s[Len(s)] \in WhiteSpace THEN TrimEnd(SubSeq(s, 1, Len(s) - 1))
  ELSE s

\* q.trim()
Trim(s) == TrimEnd(TrimStart(s))

\* Lower case of one code unit: A-Z, the Latin-1 capitals (not the
\* multiplication sign 215) and the Greek capitals with a context-free mapping
\* (913..929, 932..939) move up by 32; every other unit of the catalogs'
\* alphabet is its own lower case.
ToLowerUnit(c) ==
  IF c \in 65..90 THEN c + 32
  ELSE IF c \in (192..222) \ {215} THEN c + 32
  ELSE IF c \in (913..929) \cup (932..939) THEN c + 32
  ELSE c

\* s.toLowerCase()
ToLowerCase(s) == SubSeq([i \in 1..Len(s) |-> ToLowerUnit(s[i])], 1, Len(s))

\* parts.join(sep)
RECURSIVE Join(_, _)
Join(parts, sep) ==
  IF parts = <<>> THEN <<>>
  ELSE IF Len(parts) = 1 THEN parts[1]
  ELSE parts[1] \o sep \o Join(Tail(parts), sep)

\* Faulty variant of Includes: matches only at the start (startsWith).
Includes_Prefix(haystack, needle) ==
  /\ Len(needle) <= Len(haystack)
  /\ SubSeq(haystack, 1, Len(needle)) = needle

\* haystack.includes(needle)
Includes(haystack, needle) ==
  \E i \in 0..(Len(haystack) - Len(needle)) :
    SubSeq(haystack, i + 1, i + Len(needle)) = needle

----------------------------------------------------------------------------
\* The derived list (the body of the useMemo callback)

\* r.tags || []
TagsOf(r) == IF "tags" \in DOMAIN r THEN r.tags ELSE <<>>

\* Faulty variant of Haystack: the tags are left out of the searched text.
Haystack_NoTags(r) ==
  ToLowerCase(Join(<<r.id, r.title, r.summary, r.arc>>, <<32>>))

\* [r.id, r.title, r.summary, r.arc, ...(r.tags || [])].join(" ").toLowerCase()
Haystack(r) ==
  ToLowerCase(Join(<<r.id, r.title, r.summary, r.arc>> \o TagsOf(r), <<32>>))

\* let rows = [...scenes]: a fresh array with the same elements in order
Spread(scenes) == [i \in 1..Len(scenes) |-> scenes[i]]

\* Faulty variant of ArcStep: a value that is no arc is treated like "All".
ArcStep_UnknownShowsAll(rows, arcFilter) ==
  IF arcFilter = All \/ arcFilter \notin Arcs
    THEN rows
    ELSE SelectSeq(rows, LAMBDA r : r.arc = arcFilter)

\* if (arc !== "All") rows = rows.filter((r) => r.arc === arc)
ArcStep(rows, arcFilter) ==
  IF arcFilter # All
    THEN SelectSeq(rows, LAMBDA r : r.arc = arcFilter)
    ELSE rows

\* const search = q.trim().toLowerCase(); if (search) rows = rows.filter(...)
SearchStep(rows, searchText) ==
  LET search == ToLowerCase(Trim(searchText))
  IN  IF search # <<>>
        THEN SelectSeq(rows, LAMBDA r : Includes(Haystack(r), search))
        ELSE rows

\* Faulty variant of RevealStep: the comparison is the wrong way round.
RevealStep_Flipped(rows, threshold) ==
  SelectSeq(rows, LAMBDA r : r.revealPct <= threshold)

\* Faulty variant of RevealStep: a negative threshold is rejected and nothing
\* is shown.
RevealStep_RejectNegative(rows, threshold) ==
  IF threshold < 0 THEN <<>>
  ELSE SelectSeq(rows, LAMBDA r : r.revealPct >= threshold)

\* Faulty variant of RevealStep: a scene exactly at the threshold is dropped.
RevealStep_Strict(rows, threshold) ==
  SelectSeq(rows, LAMBDA r : r.revealPct > threshold)

\* Faulty variant of RevealStep: the threshold is not applied.
RevealStep_Skipped(rows, threshold) == rows

\* rows = rows.filter((r) => r.revealPct >= minReveal)
RevealStep(rows, threshold) ==
  SelectSeq(rows, LAMBDA r : r.revealPct >= threshold)

\* Faulty variant of Compare: the direction flag is ignored.
Compare_IgnoreDirection(a, b, ascending) == a.revealPct - b.revealPct

\* Faulty variant of Compare: the two branches are swapped.
Compare_Inverted(a, b, ascending) ==
  IF ascending THEN b.revealPct - a.revealPct ELSE a.revealPct - b.revealPct

\* (a, b) => (sortAsc ? a.revealPct - b.revealPct : b.revealPct - a.revealPct)
Compare(a, b, ascending) ==
  IF ascending THEN a.revealPct - b.revealPct ELSE b.revealPct - a.revealPct

\* Faulty variant of Insert: an element also moves in front of a predecessor
\* that compares equal, which makes the sort unstable.
RECURSIVE Insert_Unstable(_, _, _)
Insert_Unstable(sorted, x, ascending) ==
  IF sorted = <<>> THEN <<x>>
  ELSE LET last == sorted[Len(sorted)]
       IN  IF Compare(last, x, ascending) >= 0
             THEN Append(Insert_Unstable(SubSeq(sorted, 1, Len(sorted) - 1),
                                         x, ascending), last)
             ELSE Append(sorted, x)

\* Array.prototype.sort with a comparator: a stable sort (ECMAScript 2019),
\* computed here by insertion from the left; an element moves in front of a
\* predecessor only when the comparator is strictly positive.
RECURSIVE Insert(_, _, _)
Insert(sorted, x, ascending) ==
  IF sorted = <<>> THEN <<x>>
  ELSE LET last == sorted[Len(sorted)]
       IN  IF Compare(last, x, ascending) > 0
             THEN Append(Insert(SubSeq(sorted, 1, Len(sorted) - 1), x, ascending), last)
             ELSE Append(sorted, x)

RECURSIVE Sort(_, _)
Sort(rows, ascending) ==
  IF Len(rows) = 0 THEN <<>>
  ELSE Insert(Sort(SubSeq(rows, 1, Len(rows) - 1), ascending),
              rows[Len(rows)], ascending)

Derive(scenes, searchText, arcFilter, threshold, ascending) ==
  Sort(RevealStep(SearchStep(ArcStep(Spread(scenes), arcFilter), searchText),
                  threshold),
       ascending)

----------------------------------------------------------------------------
\* The component: state, memoization, handlers

\* Faulty variant of Scenes: both catalogs are merged and only filtered.
Scenes_Merged(cats, c) == cats.icarus \o cats.vega

\* const scenes = character === "icarus" ? ICARUS_SCENES : VEGA_SCENES
Scenes(cats, c) == IF c = "icarus" THEN cats.icarus ELSE cats.vega

\* Identity of the array `scenes` refers to; useMemo compares it by reference.
ScenesRef(c) == IF c = "icarus" THEN "ICARUS_SCENES" ELSE "VEGA_SCENES"

\* Faulty variant of DepsOf: sortAsc is missing from the dependency list.
DepsOf_NoSort(c, searchText, arcFilter, threshold, ascending) ==
  <<ScenesRef(c), searchText, arcFilter, threshold>>

\* The dependency list [scenes, q, arc, minReveal, sortAsc]
DepsOf(c, searchText, arcFilter, threshold, ascending) ==
  <<ScenesRef(c), searchText, arcFilter, threshold, ascending>>

\* useMemo: the stored value is kept while every dependency is unchanged,
\* otherwise the callback runs again.
UseMemo(prevDeps, prevValue, nextDeps, computed) ==
  IF nextDeps = prevDeps THEN prevValue ELSE computed

\* Faulty variant of ScenesAfterDerive: the comparator sort is applied to
\* `scenes` itself (scenes.sort(...)), which reorders the catalog array.
ScenesAfterDerive_SortsCatalog(scenes, searchText, arcFilter, threshold, ascending) ==
  Sort(scenes, ascending)

\* The catalog array once the useMemo callback has run. rows.sort works in
\* place, on the array `rows` names at line 240: the one returned by the filter
\* of line 239, itself built from the copy [...scenes] of line 228. No
\* statement writes to `scenes` or to a scene, so the catalog is as it was.
ScenesAfterDerive(scenes, searchText, arcFilter, threshold, ascending) == scenes

\* One render of IcarusVegaChronologySite with the given state values.
Render(c, searchText, arcFilter, threshold, ascending) ==
  /\ deps' = DepsOf(c, searchText, arcFilter, threshold, ascending)
  /\ items' = UseMemo(deps, items,
                      DepsOf(c, searchText, arcFilter, threshold, ascending),
                      Derive(Scenes(catalogs, c), searchText, arcFilter,
                             threshold, ascending))
  /\ catalogs' = UseMemo(deps, catalogs,
                         DepsOf(c, searchText, arcFilter, threshold, ascending),
                         [catalogs EXCEPT
                            ![c] = ScenesAfterDerive(Scenes(catalogs, c), searchText,
                                                     arcFilter, threshold, ascending)])

\* The range input: min={0} max={100} step={10}
SLIDER_MIN == 0
SLIDER_MAX == 100
SLIDER_STEP == 10

SliderPositions ==
  { n \in SLIDER_MIN..SLIDER_MAX : (n - SLIDER_MIN) % SLIDER_STEP = 0 }

\* e.target.value of the range input: the position as a decimal string
RECURSIVE DecimalString(_)
DecimalString(n) ==
  IF n < 10 THEN <<48 + n>>
  ELSE DecimalString(n \div 10) \o <<48 + (n % 10)>>

\* parseInt(s, 10) on a string of decimal digits
RECURSIVE ParseInt(_)
ParseInt(s) ==
  IF Len(s) = 0 THEN 0
  ELSE 10 * ParseInt(SubSeq(s, 1, Len(s) - 1)) + (s[Len(s)] - 48)

\* Texts typed into the search box in this model.
SearchTexts ==
  { <<>>,                                                   \* ""
    <<32, 32>>,                                             \* "  "
    <<99, 105, 112, 104, 101, 114>>,                        \* "cipher"
    <<32, 67, 73, 80, 72, 69, 82, 32>>,                     \* " CIPHER "
    <<104, 105, 110, 116, 32, 100, 117, 97, 108, 105, 116, 121>>,
                                                            \* "hint duality"
    <<100, 117, 97, 108, 105, 116, 121, 32, 100, 101, 97, 116, 104>>,
                                                            \* "duality death"
    <<115, 48, 49, 32, 97, 32, 115, 99, 97, 114>>,          \* "s01 a scar"
    <<86, 45, 937>>,                                        \* "V-(Omega)"
    <<68, 214, 68, 69, 78, 83>>,                            \* "D(O umlaut)DENS"
    <<122, 122, 122>> }                                     \* "zzz"

\* The options of the arc select: "All" and the nine arcs.
ArcOptions == {All} \cup Arcs

Init ==
  /\ catalogs = [icarus |-> ICARUS_SCENES, vega |-> VEGA_SCENES]
  /\ character = "icarus"
  /\ q = <<>>
  /\ arc = All
  /\ minReveal = 0
  /\ sortAsc = TRUE
  /\ deps = DepsOf("icarus", <<>>, All, 0, TRUE)
  /\ items = Derive(ICARUS_SCENES, <<>>, All, 0, TRUE)

\* Faulty variant of SelectCharacter: the search text is cleared on a switch.
SelectCharacter_Reset(c) ==
  /\ character' = c
  /\ q' = <<>>
  /\ UNCHANGED <<arc, minReveal, sortAsc>>
  /\ deps' = DepsOf(c, <<>>, arc, minReveal, sortAsc)
  /\ items' = UseMemo(deps, items, DepsOf(c, <<>>, arc, minReveal, sortAsc),
                      Derive(Scenes(catalogs, c), <<>>, arc, minReveal, sortAsc))
  /\ catalogs' = catalogs

\* CharacterToggle: onClick={() => onChange(opt.key)} with onChange = setCharacter
SelectCharacter(c) ==
  /\ character' = c
  /\ UNCHANGED <<q, arc, minReveal, sortAsc>>
  /\ Render(c, q, arc, minReveal, sortAsc)

\* onChange={(e) => setQ(e.target.value)}
SetQ(text) ==
  /\ q' = text
  /\ UNCHANGED <<character, arc, minReveal, sortAsc>>
  /\ Render(character, text, arc, minReveal, sortAsc)

\* onChange={(e) => setArc(e.target.value as any)}
SetArc(a) ==
  /\ arc' = a
  /\ UNCHANGED <<character, q, minReveal, sortAsc>>
  /\ Render(character, q, a, minReveal, sortAsc)

\* onChange={(e) => setMinReveal(parseInt(e.target.value, 10))}
SetMinReveal(value) ==
  /\ minReveal' = ParseInt(value)
  /\ UNCHANGED <<character, q, arc, sortAsc>>
  /\ Render(character, q, arc, ParseInt(value), sortAsc)

\* onClick={() => setSortAsc((v) => !v)}
ToggleSort ==
  /\ sortAsc' = ~sortAsc
  /\ UNCHANGED <<character, q, arc, minReveal>>
  /\ Render(character, q, arc, minReveal, ~sortAsc)

Next ==
  \/ \E c \in Characters : SelectCharacter(c)
  \/ \E text \in SearchTexts : SetQ(text)
  \/ \E a \in ArcOptions : SetArc(a)
  \/ \E n \in SliderPositions : SetMinReveal(DecimalString(n))
  \/ ToggleSort

Spec == Init /\ [][Next]_vars

----------------------------------------------------------------------------
\* The derivation as a function of any catalog: the component's first render
\* over catalogs other than the two shipped ones, with parameters drawn from
\* value sets wider than the controls emit.

\* Longest catalog drawn
MaxCatalogLen == 3

\* Scenes the drawn catalogs are built from: unique ids, three arcs, three
\* scenes sharing revealPct 50, one scene without a tags field, one with an
\* empty tags array.
ScenePool ==
  { [ id |-> <<97>>, title |-> <<65, 120>>, arc |-> Isolation,       \* "a" "Ax"
      revealPct |-> 50, summary |-> <<107>>, tags |-> <<<<116>>>> ], \* "k" ["t"]
    [ id |-> <<98>>, title |-> <<66, 121>>, arc |-> Duality,         \* "b" "By"
      revealPct |-> 50, summary |-> <<107>> ],                       \* "k"
    [ id |-> <<99>>, title |-> <<65, 120>>, arc |-> Isolation,       \* "c" "Ax"
      revealPct |-> 20, summary |-> <<109>>, tags |-> <<>> ],        \* "m" []
    [ id |-> <<100>>, title |-> <<68, 122>>, arc |-> Duality,        \* "d" "Dz"
      revealPct |-> 80, summary |-> <<107>>,                         \* "k"
      tags |-> <<<<116>>, <<117>>>> ],                               \* ["t","u"]
    [ id |-> <<101>>, title |-> <<69, 122>>, arc |-> Climax,         \* "e" "Ez"
      revealPct |-> 50, summary |-> <<109>>, tags |-> <<<<117>>>> ] }
                                                                     \* "m" ["u"]

\* Every ordering of up to MaxCatalogLen distinct scenes of the pool
GenericCatalogs ==
  UNION { { C \in [1..n -> ScenePool] :
              \A i, j \in 1..n : i # j => C[i] # C[j] } : n \in 0..MaxCatalogLen }

\* Search texts for the drawn catalogs
DeriveTexts ==
  { <<>>,                  \* ""
    <<32, 75, 9>>,         \* " K<tab>": matches the summaries "k"
    <<116, 32, 85>> }      \* "t U": spans the tags "t" and "u"

\* Arc filter values for the drawn catalogs: "All", two arcs and two strings
\* that are no option of the select.
DeriveArcs ==
  { All, Isolation, Duality,
    <<100, 117, 97, 108, 105, 116, 121>>,   \* "duality"
    <<97, 108, 108>> }                      \* "all"

\* Thresholds for the drawn catalogs, one of them below the slider's range
DeriveThresholds == {-10, 0, 50, 51}

InitDerive ==
  /\ character \in Characters
  /\ \E C \in GenericCatalogs
              \cup {IF character = "icarus" THEN ICARUS_SCENES ELSE VEGA_SCENES} :
       catalogs = [icarus |-> IF character = "icarus" THEN C ELSE <<>>,
                   vega   |-> IF character = "vega" THEN C ELSE <<>>]
  /\ q \in DeriveTexts
  /\ arc \in DeriveArcs
  /\ minReveal \in DeriveThresholds
  /\ sortAsc \in BOOLEAN
  /\ deps = <<>>
  /\ items = <<>>

\* The first render: nothing is memoized yet, so the callback runs.
DeriveCall ==
  /\ deps = <<>>
  /\ UNCHANGED <<character, q, arc, minReveal, sortAsc>>
  /\ Render(character, q, arc, minReveal, sortAsc)

NextDerive == DeriveCall

SpecDerive == InitDerive /\ [][NextDerive]_vars

----------------------------------------------------------------------------
\* Properties of the component (checked under Spec)

Range(s) == { s[i] : i \in 1..Len(s) }

\* The ids of a list of scenes, in order
Ids(rows) == [i \in 1..Len(rows) |-> rows[i].id]

\* The revealPct values of a list of scenes, in order
Reveals(rows) == [i \in 1..Len(rows) |-> rows[i].revealPct]

Id_S00x == <<83, 48, 48, 120>>
Id_S01 == <<83, 48, 49>>
Id_S23f == <<83, 50, 51, 102>>
Id_S50 == <<83, 53, 48>>
Id_S71x == <<83, 55, 49, 120>>
Id_S90 == <<83, 57, 48>>
Id_0717 == <<48, 55, 49, 55>>

Text_cipher == <<99, 105, 112, 104, 101, 114>>
Text_hint_duality == <<104, 105, 110, 116, 32, 100, 117, 97, 108, 105, 116, 121>>
Text_s01_a_scar == <<115, 48, 49, 32, 97, 32, 115, 99, 97, 114>>

\* C1: in every reachable state each scene of `items` is an element of the
\* catalog selected by `character` (ICARUS_SCENES for "icarus", VEGA_SCENES
\* for "vega") and is not an element of the other catalog.
C1_ItemsFromActiveCatalog ==
  \A i \in 1..Len(items) :
    /\ character = "icarus" =>
         items[i] \in Range(ICARUS_SCENES) /\ items[i] \notin Range(VEGA_SCENES)
    /\ character = "vega" =>
         items[i] \in Range(VEGA_SCENES) /\ items[i] \notin Range(ICARUS_SCENES)

\* C1 witness: Vega is selected with the search text "cipher", which matches
\* scenes of both catalogs, and the list shows the one Vega scene that matches.
C1_Witness ==
  /\ character = "vega"
  /\ q = Text_cipher
  /\ Len(items) = 1
  /\ items[1] \in Range(VEGA_SCENES)

\* The text the search looks into, written out field by field: id, title,
\* summary, arc and then every tag, each preceded by one space.
RECURSIVE C3_TagText(_)
C3_TagText(tags) ==
  IF tags = <<>> THEN <<>> ELSE <<32>> \o Head(tags) \o C3_TagText(Tail(tags))

C3_Text(r) ==
  r.id \o <<32>> \o r.title \o <<32>> \o r.summary \o <<32>> \o r.arc
    \o C3_TagText(r.tags)

\* The search text without its leading and trailing white space
C3_Trimmed(s) ==
  LET solid == { i \in 1..Len(s) : s[i] \notin WhiteSpace }
  IN  IF solid = {} THEN <<>>
      ELSE SubSeq(s, CHOOSE i \in solid : \A j \in solid : i <= j,
                     CHOOSE i \in solid : \A j \in solid : i >= j)

\* needle occurs in text when both are compared in lower case
C3_Occurs(needle, text) ==
  \E start \in 1..Len(text) :
    /\ start + Len(needle) - 1 <= Len(text)
    /\ \A k \in 1..Len(needle) :
         ToLowerUnit(text[start + k - 1]) = ToLowerUnit(needle[k])

\* C3: a scene of the active catalog that passes the arc filter and the reveal
\* threshold is in `items` exactly when the trimmed search text is empty or
\* occurs, case-insensitively, in the scene's id, title, summary, arc and tags
\* joined by single spaces.
C3_SearchStep ==
  \A r \in Range(Scenes(catalogs, character)) :
    ((arc = All \/ r.arc = arc) /\ r.revealPct >= minReveal) =>
      ( r \in Range(items)
          <=> (C3_Trimmed(q) = <<>> \/ C3_Occurs(C3_Trimmed(q), C3_Text(r))) )

\* C3 witness: "hint duality" spans the end of one tag and the start of the
\* next; it selects S90 alone among the seven Icarus scenes.
C3_Witness ==
  /\ character = "icarus"
  /\ q = Text_hint_duality
  /\ arc = All
  /\ minReveal = 0
  /\ Ids(items) = <<Id_S90>>

\* C6: a step that changes `character` leaves q, arc, minReveal and sortAsc
\* as they were.
C6_SelectCharacterFrame ==
  [][character' # character =>
       /\ q' = q
       /\ arc' = arc
       /\ minReveal' = minReveal
       /\ sortAsc' = sortAsc]_vars

\* C6 witness: Vega is selected while a search text that matches only an
\* Icarus scene, an arc, a threshold and descending order are all still set;
\* the list is empty.
C6_Witness ==
  /\ character = "vega"
  /\ q = Text_s01_a_scar
  /\ arc = Isolation
  /\ minReveal = 20
  /\ ~sortAsc
  /\ items = <<>>

\* C7: after every action the rendered list equals Derive applied to the
\* catalog of the current character and the current q, arc, minReveal and
\* sortAsc.
C7_ItemsNeverStale ==
  items = Derive(IF character = "icarus" THEN ICARUS_SCENES ELSE VEGA_SCENES,
                 q, arc, minReveal, sortAsc)

\* C7 witness: all five inputs differ from their initial values and the list
\* shows the one Vega scene they select.
C7_Witness ==
  /\ character = "vega"
  /\ q = Text_cipher
  /\ arc # All
  /\ minReveal > 0
  /\ ~sortAsc
  /\ Len(items) = 1

C8_Scenario ==
  /\ character = "icarus"
  /\ arc = All
  /\ q = <<>>
  /\ minReveal = 80
  /\ ~sortAsc

\* C8 as stated: with the Icarus catalog, arc "All", empty search text,
\* minReveal 80 and descending order the list is [0717, S90, S71x].
C8_Original ==
  C8_Scenario =>
    /\ Ids(items) = <<Id_0717, Id_S90, Id_S71x>>
    /\ Reveals(items) = <<100, 90, 75>>

\* C8 amended: with the Icarus catalog, arc "All", empty search text,
\* minReveal 80 and descending order the list is exactly [0717 (100),
\* S90 (90)]; S71x (75) is below the threshold and is not shown.
C8_Amended ==
  C8_Scenario =>
    /\ Ids(items) = <<Id_0717, Id_S90>>
    /\ Reveals(items) = <<100, 90>>

\* C8 witness: the scenario's state, with a two-element list.
C8_Witness == C8_Scenario /\ Len(items) = 2

C9_Defaults ==
  /\ character = "icarus"
  /\ q = <<>>
  /\ arc = All
  /\ minReveal = 0
  /\ sortAsc = TRUE

C9_AllSeven ==
  /\ Ids(items) = <<Id_S00x, Id_S01, Id_S23f, Id_S50, Id_S71x, Id_S90, Id_0717>>
  /\ Reveals(items) = <<10, 20, 40, 60, 75, 90, 100>>

\* C9: the initial state has character icarus, empty search text, arc "All",
\* minReveal 0 and ascending order, and whenever the parameters have these
\* values the list is the seven Icarus scenes S00x, S01, S23f, S50, S71x, S90,
\* 0717 with revealPct 10, 20, 40, 60, 75, 90, 100.
C9_InitialList == C9_Defaults /\ [](C9_Defaults => C9_AllSeven)

\* C9 witness: the state after the first render, the memo computed for the
\* default parameters and holding seven scenes.
C9_Witness ==
  /\ C9_Defaults
  /\ deps = DepsOf("icarus", <<>>, All, 0, TRUE)
  /\ Len(items) = 7

\* C10: with the Icarus catalog, search text "cipher", arc "All", minReveal 0
\* and ascending order the list is exactly [S90, 0717].
C10_CipherSearch ==
  ( /\ character = "icarus"
    /\ q = Text_cipher
    /\ arc = All
    /\ minReveal = 0
    /\ sortAsc )
  => Ids(items) = <<Id_S90, Id_0717>>

\* C10 witness: the scenario's state with S90 listed first.
C10_Witness ==
  /\ character = "icarus"
  /\ q = Text_cipher
  /\ arc = All
  /\ minReveal = 0
  /\ sortAsc
  /\ Len(items) = 2
  /\ items[1].id = Id_S90

----------------------------------------------------------------------------
\* Properties of the derivation over any catalog (checked under SpecDerive)

\* Index of scene r in the list rows (ids are unique within a catalog)
PositionIn(rows, r) == CHOOSE k \in 1..Len(rows) : rows[k].id = r.id

\* C2: every element of the derived list has revealPct >= minReveal and,
\* unless the arc filter is "All", has the arc of the filter.
C2_FiltersHold ==
  \A i \in 1..Len(items) :
    /\ items[i].revealPct >= minReveal
    /\ (arc = All \/ items[i].arc = arc)

\* C2 witness: a three-scene catalog, an arc filter and a threshold of 50 that
\* together leave two scenes.
C2_Witness ==
  /\ deps # <<>>
  /\ Len(Scenes(catalogs, character)) = 3
  /\ arc = Duality
  /\ minReveal = 50
  /\ \E r \in Range(Scenes(catalogs, character)) : r.revealPct < 50
  /\ Len(items) = 2

\* C4: the derived list is non-decreasing in revealPct when sortAsc is true and
\* non-increasing when it is false.
C4_Sorted ==
  \A i \in 1..(Len(items) - 1) :
    IF sortAsc THEN items[i].revealPct <= items[i + 1].revealPct
               ELSE items[i].revealPct >= items[i + 1].revealPct

\* C4 witness: a descending derivation of three scenes whose catalog lists
\* them in ascending order.
C4_Witness ==
  /\ deps # <<>>
  /\ ~sortAsc
  /\ Reveals(Scenes(catalogs, character)) = <<20, 50, 80>>
  /\ Reveals(items) = <<80, 50, 20>>

\* C5: two scenes of the derived list with equal revealPct stand in the order
\* they have in the catalog, whatever the sort direction.
C5_Stable ==
  \A i, j \in 1..Len(items) :
    (i # j /\ items[i].revealPct = items[j].revealPct) =>
      ( i < j <=> PositionIn(Scenes(catalogs, character), items[i])
                    < PositionIn(Scenes(catalogs, character), items[j]) )

\* C5 witness: a descending derivation that moves a scene of revealPct 20 from
\* between two scenes of revealPct 50 to the end, the two keeping their order.
C5_Witness ==
  /\ deps # <<>>
  /\ ~sortAsc
  /\ Ids(Scenes(catalogs, character)) = <<<<98>>, <<99>>, <<97>>>>
  /\ Ids(items) = <<<<98>>, <<97>>, <<99>>>>

----------------------------------------------------------------------------
\* Frame property of the catalogs (checked under Spec)

----------------------------------------------------------------------------
\* Out-of-range parameters and completeness (checked under SpecDerive)

\* C12: when the arc filter is neither "All" nor one of the nine arcs, the
\* derived list is empty, for the shipped catalogs as for any drawn one and
\* whatever the other parameters.
C12_UnknownArcEmpty ==
  (deps # <<>> /\ arc \notin ArcOptions) => items = <<>>

\* C12 witness: the seven Icarus scenes derived with the arc filter "all", no
\* search text and no threshold give the empty list.
C12_Witness ==
  /\ deps # <<>>
  /\ character = "icarus"
  /\ catalogs.icarus = ICARUS_SCENES
  /\ arc = <<97, 108, 108>>
  /\ q = <<>>
  /\ minReveal = 0
  /\ items = <<>>

\* C13: with a negative minReveal the derived list is the one minReveal = 0
\* gives for the same catalog, search text, arc filter and sort direction.
C13_NegativeThresholdNoOp ==
  (deps # <<>> /\ minReveal < 0) =>
    items = Derive(Scenes(catalogs, character), q, arc, 0, sortAsc)

\* C13 witness: minReveal = -10 over a three-scene catalog, all three listed,
\* the scene of revealPct 20 among them.
C13_Witness ==
  /\ deps # <<>>
  /\ minReveal = -10
  /\ Len(Scenes(catalogs, character)) = 3
  /\ Len(items) = 3
  /\ \E i \in 1..3 : items[i].revealPct = 20

\* The searched text of a scene that may lack the tags field
C14_Text(r) ==
  r.id \o <<32>> \o r.title \o <<32>> \o r.summary \o <<32>> \o r.arc
    \o (IF "tags" \in DOMAIN r THEN C3_TagText(r.tags) ELSE <<>>)

\* Scene r satisfies the arc filter, the search filter and the threshold
C14_Matches(r) ==
  /\ arc = All \/ r.arc = arc
  /\ C3_Trimmed(q) = <<>> \/ C3_Occurs(C3_Trimmed(q), C14_Text(r))
  /\ r.revealPct >= minReveal

\* C14: every scene of the catalog that satisfies the three predicates is in
\* the derived list, no id is listed twice, and the list is as long as the
\* number of matching catalog scenes.
C14_Complete ==
  deps # <<>> =>
    /\ \A r \in Range(Scenes(catalogs, character)) :
         C14_Matches(r) => \E i \in 1..Len(items) : items[i].id = r.id
    /\ \A i, j \in 1..Len(items) : i # j => items[i].id # items[j].id
    /\ Len(items) = Len(SelectSeq(Scenes(catalogs, character), C14_Matches))

\* C14 witness: a three-scene catalog with a search text and a threshold of 50;
\* two scenes match, one of them exactly at the threshold, and both are listed.
C14_Witness ==
  /\ deps # <<>>
  /\ Len(Scenes(catalogs, character)) = 3
  /\ C3_Trimmed(q) # <<>>
  /\ arc = All
  /\ minReveal = 50
  /\ Len(items) = 2
  /\ \E i \in 1..2 : items[i].revealPct = 50

====
